---- MODULE Spec2Model ----
(***************************************************************************)
(* ParserStateExtractor (src/ParserStateExtractor.py): a tracker that      *)
(* lexes a text, feeds the tokens to an LALR(1) interactive parser and     *)
(* reports the parser's state and stack under canonical state ids.         *)
(*                                                                         *)
(* A text is a sequence of one-character strings.  Python's None is the    *)
(* string "None" where the other values are strings, and the empty         *)
(* sequence where the other values are sequences (an optional integer k is *)
(* <<k>>).                                                                 *)
(***************************************************************************)
EXTENDS Integers, Sequences, FiniteSets, TLC

VARIABLES
    _state_mapping,   \* self._state_mapping: hash(fingerprint) -> canonical id
    _state_counter,   \* self._state_counter
    hashOf,           \* the hash of every fingerprint hashed so far, by key
    state_stack,      \* parser_state.state_stack of the live interactive parser
    op,               \* the operation that ran last
    sequence,         \* its text argument
    top_k,            \* its top_k argument
    result,           \* what it returned
    issued,           \* every (raw state, id) pair _get_consistent_state_id has returned
    firstSeen,        \* the keys of the fingerprints resolved, in first-seen order
    batch,            \* process_dataset: its position in the dataset and all_instances
    other,            \* a second tracker, of an independent run of the same grammar
    table_order,      \* the order in which a state's table is iterated
    workers           \* the workers running _get_consistent_state_id concurrently

vars == <<_state_mapping, _state_counter, hashOf, state_stack, op, sequence,
          top_k, result, issued, firstSeen, batch, other,
                   table_order, workers>>

(***************************************************************************)
(* Bounds of the model.                                                    *)
(***************************************************************************)
\* The longest text given to get_tokens_with_remainder alone.
MaxLexLen == 5

\* The longest text given to parse_partial and analyze_incremental.
MaxParseLen == 4

\* The deepest state stack of a session.
MaxDepth == 5

\* The largest top_k given to get_parser_state.
MaxSnapshotTopK == 6

\* The distinct fingerprints one tracker of Spec resolves.
MaxSeen == 2

\* The fingerprints whose hash collides with another fingerprint's.
MaxCollisions == 1

\* The longest dataset given to process_dataset.
MaxItems == 4

\* The workers that share one tracker.
MaxWorkers == 2

(***************************************************************************)
(* Python helpers.                                                         *)
(***************************************************************************)
None == "None"

Min(a, b) == IF a <= b THEN a ELSE b

Max(a, b) == IF a >= b THEN a ELSE b

\* s[i:] of Python for any integer i (0-based, a negative i counts from the end).
PySliceFrom(s, i) ==
    LET start == IF i < 0 THEN Max(Len(s) + i, 0) ELSE Min(i, Len(s))
    IN  SubSeq(s, start + 1, Len(s))

\* s[:i] of Python for an index 0 <= i.
PySliceTo(s, i) == SubSeq(s, 1, Min(i, Len(s)))

\* The element of a singleton set.  The({e(x) : x \in {v}}) is e(v), with v
\* computed once however often e uses it.
The(S) == CHOOSE x \in S : TRUE

\* All sequences over S of length at most n.
SeqsUpTo(S, n) == UNION {[1..k -> S] : k \in 0..n}

(***************************************************************************)
(* The grammar's terminals (the arithmetic grammar of src/lark-test.py     *)
(* restricted to + - ( ) and NUMBER, with %ignore WS).                     *)
(***************************************************************************)
Digits == {"1"}

Blanks == {" "}

Chars == {"1", "+", "-", "(", ")", " ", "#"}

\* The anonymous one-character terminals and the names lark gives them.
Punct == [c \in {"+", "-", "(", ")"} |->
            CASE c = "+" -> "PLUS" [] c = "-" -> "MINUS"
              [] c = "(" -> "LPAR" [] c = ")" -> "RPAR"]

IgnoreTypes == {"WS"}

\* The length of the longest run of characters of class C in text from 0-based pos.
RECURSIVE RunLen(_, _, _)
RunLen(text, pos, C) ==
    IF pos < Len(text) /\ text[pos + 1] \in C
    THEN 1 + RunLen(text, pos + 1, C)
    ELSE 0

\* BasicLexer.match: the terminal matching at pos and the length matched, or
\* length 0 when no terminal matches there (NUMBER: /\d+/, WS: /[ \t\f\r\n]+/).
Match(text, pos) ==
    LET c == text[pos + 1]
    IN  IF c \in Digits THEN [type |-> "NUMBER", len |-> RunLen(text, pos, Digits)]
        ELSE IF c \in Blanks THEN [type |-> "WS", len |-> RunLen(text, pos, Blanks)]
        ELSE IF c \in DOMAIN Punct THEN [type |-> Punct[c], len |-> 1]
        ELSE [type |-> None, len |-> 0]

\* The offset reported by a lexing that raised nothing.
NoError == -1

\* parser.lex(text), read to its end: the tokens yielded, and the offset at which
\* UnexpectedCharacters was raised (pos_in_stream) or NoError.
RECURSIVE LexFrom(_, _, _)
LexFrom(text, pos, acc) ==
    IF pos >= Len(text) THEN [tokens |-> acc, err |-> NoError]
    ELSE LET m == Match(text, pos)
         IN  IF m.len = 0 THEN [tokens |-> acc, err |-> pos]
             ELSE IF m.type \in IgnoreTypes THEN LexFrom(text, pos + m.len, acc)
             ELSE LexFrom(text, pos + m.len,
                          Append(acc, [type |-> m.type,
                                       value |-> SubSeq(text, pos + 1, pos + m.len),
                                       start_pos |-> pos,
                                       end_pos |-> pos + m.len]))

Lex(text) == LexFrom(text, 0, <<>>)

\* RemainderAfter with the slice starting one character early.
RemainderAfter_Overlap(text, tokens) ==
    IF tokens # <<>>
    THEN PySliceFrom(text, tokens[Len(tokens)].end_pos - 1)
    ELSE text

\* The text after the last token, as lines 41-50 compute it from a lexing that
\* did not raise.
RemainderAfter(text, tokens) ==
    IF tokens # <<>>
    THEN LET last_token_end == tokens[Len(tokens)].end_pos
         IN  IF last_token_end < Len(text)
             THEN PySliceFrom(text, last_token_end)
             ELSE <<>>
    ELSE text

\* LexErrorHandler that skips the offending character.
LexErrorHandler_SkipChar(text, pos_in_stream) ==
    [raised |-> FALSE, tokens |-> Lex(PySliceTo(text, pos_in_stream)).tokens,
     remainder |-> PySliceFrom(text, pos_in_stream + 1)]

\* The handler of UnexpectedCharacters, lines 52-59: lex the text before the
\* error offset again; that lexing is outside the try, so its error is raised.
LexErrorHandler(text, pos_in_stream) ==
    LET again == Lex(PySliceTo(text, pos_in_stream))
    IN  IF again.err # NoError
        THEN [raised |-> TRUE, tokens |-> <<>>, remainder |-> <<>>]
        ELSE [raised |-> FALSE, tokens |-> again.tokens,
              remainder |-> PySliceFrom(text, pos_in_stream)]

\* get_tokens_with_remainder(sequence): (tokens, remainder), or raised.
get_tokens_with_remainder(text) ==
    LET first == Lex(text)
    IN  IF first.err = NoError
        THEN [raised |-> FALSE, tokens |-> first.tokens,
              remainder |-> RemainderAfter(text, first.tokens)]
        ELSE LexErrorHandler(text, first.err)

(***************************************************************************)
(* The automaton lark builds for the grammar (self.parser, line 22):       *)
(*     start: sum                                                          *)
(*     sum:   atom | sum "+" atom | sum "-" atom                           *)
(*     atom:  NUMBER | "(" sum ")"                                         *)
(* parse_table.states maps a raw state id to its table: symbol name ->     *)
(* (Shift, target raw state) or (Reduce, rule); a goto on a nonterminal is *)
(* a Shift entry.                                                          *)
(***************************************************************************)
Shift(target) == [type |-> "Shift", target |-> target, origin |-> "", size |-> 0]

Reduce(origin, size) == [type |-> "Reduce", target |-> 0, origin |-> origin, size |-> size]

\* The entries of a state that reduces by one rule on every lookahead of sum/atom.
ReduceAll(origin, size) ==
    [t \in {"PLUS", "MINUS", "RPAR", "$END"} |-> Reduce(origin, size)]

ParseTableStates ==
    <<  \* raw state 0: the start state
        [t \in {"NUMBER", "LPAR", "start", "sum", "atom"} |->
            CASE t = "NUMBER" -> Shift(4) [] t = "LPAR" -> Shift(5)
              [] t = "start" -> Shift(1) [] t = "sum" -> Shift(2)
              [] t = "atom" -> Shift(3)],
        \* 1: $root_start -> start .   (the end state: no entries)
        [t \in {} |-> Shift(0)],
        \* 2: start -> sum . ; sum -> sum . "+" atom ; sum -> sum . "-" atom
        [t \in {"$END", "PLUS", "MINUS"} |->
            CASE t = "$END" -> Reduce("start", 1)
              [] t = "PLUS" -> Shift(6) [] t = "MINUS" -> Shift(10)],
        \* 3: sum -> atom .
        ReduceAll("sum", 1),
        \* 4: atom -> NUMBER .
        ReduceAll("atom", 1),
        \* 5: atom -> "(" . sum ")"
        [t \in {"NUMBER", "LPAR", "sum", "atom"} |->
            CASE t = "NUMBER" -> Shift(4) [] t = "LPAR" -> Shift(5)
              [] t = "sum" -> Shift(7) [] t = "atom" -> Shift(3)],
        \* 6: sum -> sum "+" . atom
        [t \in {"NUMBER", "LPAR", "atom"} |->
            CASE t = "NUMBER" -> Shift(4) [] t = "LPAR" -> Shift(5)
              [] t = "atom" -> Shift(8)],
        \* 7: atom -> "(" sum . ")" ; sum -> sum . "+" atom ; sum -> sum . "-" atom
        [t \in {"RPAR", "PLUS", "MINUS"} |->
            CASE t = "RPAR" -> Shift(9)
              [] t = "PLUS" -> Shift(6) [] t = "MINUS" -> Shift(10)],
        \* 8: sum -> sum "+" atom .
        ReduceAll("sum", 3),
        \* 9: atom -> "(" sum ")" .
        ReduceAll("atom", 3),
        \* 10: sum -> sum "-" . atom
        [t \in {"NUMBER", "LPAR", "atom"} |->
            CASE t = "NUMBER" -> Shift(4) [] t = "LPAR" -> Shift(5)
              [] t = "atom" -> Shift(11)],
        \* 11: sum -> sum "-" atom .
        ReduceAll("sum", 3)
    >>

\* The raw state ids of the table (state s is ParseTableStates[s + 1]).
RawStates == 0..(Len(ParseTableStates) - 1)

\* A raw state id that is not in the table.
UnknownState == Len(ParseTableStates)

\* The state lark's parser starts in.
StartState == 0

Table(s) == ParseTableStates[s + 1]

\* The symbol names in the order Python sorts strings ('$' < 'A'..'Z' < 'a'..'z').
SortedSymbols ==
    <<"$END", "LPAR", "MINUS", "NUMBER", "PLUS", "RPAR", "atom", "start", "sum">>

\* Lines 77-81: action_type_name.  lark's Shift and Reduce are two instances of
\* its class Action; an instance has no __name__, so the name is the class's.
ActionTypeName(a) == "Action"

\* Lines 84-92: the description of one action, a string of fields joined by
\* ":", modelled as the record of the fields (name is "" where the string has
\* no such field).  The target of a Shift is a raw state id, which has neither
\* origin nor expansion: f"{action_type_name}:{str(target)}"; the target of a
\* Reduce is a rule: f"{action_type_name}:{target.origin}:{len(target.expansion)}".
ActionDescription(a) ==
    LET action_type_name == ActionTypeName(a)
    IN  IF action_type_name = "Shift"
        THEN [n |-> a.target, kind |-> action_type_name, name |-> ""]
        ELSE IF a.type = "Reduce"
             THEN [n |-> a.size, kind |-> action_type_name, name |-> a.origin]
             ELSE [n |-> a.target, kind |-> action_type_name, name |-> ""]

\* fingerprint_parts.sort() then tuple(): the (term, action) pairs in the order
\* of their terms (a table holds a term once, so the terms decide the order).
RECURSIVE SortedParts(_, _)
SortedParts(table, i) ==
    IF i > Len(SortedSymbols) THEN <<>>
    ELSE LET term == SortedSymbols[i]
         IN  IF term \in DOMAIN table
             THEN <<[term |-> term, action |-> ActionDescription(table[term])]>>
                      \o SortedParts(table, i + 1)
             ELSE SortedParts(table, i + 1)

\* The fingerprint of every state of the table.
FingerprintOf == [s \in RawStates |-> SortedParts(Table(s), 1)]

\* _get_state_fingerprint(state_id, parse_table): None for a state that is not in
\* the table, else the sorted tuple.
_get_state_fingerprint(state_id) ==
    IF state_id \notin RawStates
    THEN [none |-> TRUE, parts |-> <<>>]
    ELSE [none |-> FALSE, parts |-> FingerprintOf[state_id]]

Fingerprints == {FingerprintOf[s] : s \in RawStates}

(***************************************************************************)
(* _get_state_fingerprint statement by statement, for a table whose        *)
(* items() come in a given order (a sequence of the table's terms).        *)
(***************************************************************************)
\* The orders in which the items of a table can be iterated.
TableOrders(table) ==
    {order \in [1..Cardinality(DOMAIN table) -> DOMAIN table] :
        \A i, j \in DOMAIN order : order[i] = order[j] => i = j}

\* Lines 70-94: fingerprint_parts after the loop, one (str(term), action) per
\* item in the order of iteration.
AppendedParts(table, order) ==
    [i \in 1..Len(order) |->
        [term |-> order[i], action |-> ActionDescription(table[order[i]])]]

\* The place of a term in the order of Python's strings.
Rank(term) == CHOOSE i \in 1..Len(SortedSymbols) : SortedSymbols[i] = term

\* part comes before the parts of sorted that follow its term.
RECURSIVE Insert(_, _)
Insert(part, sorted) ==
    IF sorted = <<>> THEN <<part>>
    ELSE IF Rank(part.term) <= Rank(Head(sorted).term)
         THEN <<part>> \o sorted
         ELSE <<Head(sorted)>> \o Insert(part, Tail(sorted))

\* The parts in the order of their terms, by insertion.
RECURSIVE InsertionSort(_)
InsertionSort(parts) ==
    IF parts = <<>> THEN <<>>
    ELSE Insert(Head(parts), InsertionSort(Tail(parts)))

\* Line 97 left out: the parts stay in the order of iteration.
PySort_Skipped(fingerprint_parts) == fingerprint_parts

\* Line 97: fingerprint_parts.sort().  The terms of one table differ, so the
\* terms alone order the pairs.
PySort(fingerprint_parts) == InsertionSort(fingerprint_parts)

\* Lines 62-100 with the items of the state's table iterated in the given order.
FingerprintInOrder(state_id, order) ==
    IF state_id \notin RawStates
    THEN [none |-> TRUE, parts |-> <<>>]
    ELSE [none |-> FALSE,
          parts |-> PySort(AppendedParts(Table(state_id), order))]

(***************************************************************************)
(* hash(fingerprint).  One process gives equal tuples equal hashes; unequal *)
(* tuples may collide.  A fingerprint is named by its key, the least raw    *)
(* state that has it.  hashOf holds the hash of every fingerprint hashed so *)
(* far, by key; a fingerprint hashed for the first time gets its own value  *)
(* (its key) or, as a collision, a value some other fingerprint has.        *)
(***************************************************************************)
KeyOf ==
    [fp \in Fingerprints |->
        CHOOSE s \in RawStates :
            /\ FingerprintOf[s] = fp
            /\ \A t \in RawStates : FingerprintOf[t] = fp => s <= t]

Keys == {KeyOf[fp] : fp \in Fingerprints}

Range(f) == {f[x] : x \in DOMAIN f}

Colliders(h) == {k \in DOMAIN h : h[k] # k}

\* hash(fp) under the hash function h.
PyHash(h, fp) == h[KeyOf[fp]]

\* The hash functions hash() may turn out to be once the fingerprints of the raw
\* states in raws have been hashed too: h extended to them, at most MaxCollisions
\* fingerprints in all sharing the hash of another one.
HashExtensions(h, raws) ==
    LET New == {KeyOf[FingerprintOf[raws[i]]] :
                    i \in {j \in 1..Len(raws) : raws[j] \in RawStates}} \ DOMAIN h
        budget == MaxCollisions - Cardinality(Colliders(h))
    IN  IF New = {} THEN {h}
        ELSE { h @@ [k \in New |-> IF k \in C THEN tgt[k] ELSE k] :
                <<C, tgt>> \in
                  UNION { {<<C, tgt>> : tgt \in [C -> Range(h) \cup (New \ C)]} :
                          C \in {D \in SUBSET New : Cardinality(D) <= budget} } }

\* A hash function without collisions, on every fingerprint of the table.
InjectiveHash == [k \in Keys |-> k]

(***************************************************************************)
(* The registry: (self._state_mapping, self._state_counter).               *)
(***************************************************************************)
\* f"S{n}"
CanonicalId(n) == "S" \o ToString(n)

\* Lines 113-115 without the membership test: a new id on every call.
Mint_Always(reg, fingerprint_hash) ==
    [mapping |-> (fingerprint_hash :> CanonicalId(reg.counter)) @@ reg.mapping,
     counter |-> reg.counter + 1]

\* Lines 113-115: store the next id under a hash that has none yet.
Mint(reg, fingerprint_hash) ==
    IF fingerprint_hash \notin DOMAIN reg.mapping
    THEN [mapping |-> reg.mapping @@ (fingerprint_hash :> CanonicalId(reg.counter)),
          counter |-> reg.counter + 1]
    ELSE reg

\* _get_consistent_state_id without the test of lines 108-109: the missing
\* fingerprint is hashed and given an id like any other.
_get_consistent_state_id_NoGuard(reg, h, state_id) ==
    LET fingerprint == _get_state_fingerprint(state_id)
        fingerprint_hash == IF fingerprint.none THEN Cardinality(Keys)
                            ELSE PyHash(h, fingerprint.parts)
    IN  The({[reg |-> after, id |-> after.mapping[fingerprint_hash]] :
               after \in {Mint(reg, fingerprint_hash)}})

\* _get_consistent_state_id(state_id, parse_table) on registry reg, with h the
\* hash function: the registry after the call and the id returned.
_get_consistent_state_id(reg, h, state_id) ==
    LET fingerprint == _get_state_fingerprint(state_id)
    IN  IF fingerprint.none
        THEN [reg |-> reg, id |-> None]
        ELSE LET fingerprint_hash == PyHash(h, fingerprint.parts)
             IN  The({[reg |-> after, id |-> after.mapping[fingerprint_hash]] :
                        after \in {Mint(reg, fingerprint_hash)}})

\* [self._get_consistent_state_id(s, parse_table) for s in raws]
RECURSIVE ResolveAll(_, _, _)
ResolveAll(reg, h, raws) ==
    IF raws = <<>> THEN [reg |-> reg, ids |-> <<>>]
    ELSE The({The({[reg |-> rest.reg, ids |-> <<first.id>> \o rest.ids] :
                     rest \in {ResolveAll(first.reg, h, Tail(raws))}}) :
              first \in {_get_consistent_state_id(reg, h, Head(raws))}})

\* The calls of _get_consistent_state_id as (raw state, id returned) records.
CallLog(raws, ids) == [i \in 1..Len(raws) |-> [raw |-> raws[i], id |-> ids[i]]]

(***************************************************************************)
(* The interactive parser (lark's InteractiveParser over the table).       *)
(***************************************************************************)
\* self.parser.parse_interactive(''): the state stack of a new session.
parse_interactive == <<StartState>>

\* interactive.feed_token(token) on state stack `stack` for a token of the
\* given type: reduce while the table says so, then shift once.  ok is FALSE
\* when the state on top has no action for the type (UnexpectedToken).
RECURSIVE feed_token(_, _)
feed_token(stack, type) ==
    LET state == stack[Len(stack)]
    IN  IF type \notin DOMAIN Table(state)
        THEN [ok |-> FALSE, stack |-> stack]
        ELSE LET a == Table(state)[type]
             IN  IF a.type = "Shift"
                 THEN [ok |-> TRUE, stack |-> Append(stack, a.target)]
                 ELSE LET popped == SubSeq(stack, 1, Len(stack) - a.size)
                          goto == Table(popped[Len(popped)])[a.origin]
                      IN  feed_token(Append(popped, goto.target), type)

\* for token in tokens: interactive.feed_token(token)
RECURSIVE FeedAll(_, _)
FeedAll(stack, tokens) ==
    IF tokens = <<>> THEN [ok |-> TRUE, stack |-> stack]
    ELSE LET fed == feed_token(stack, Head(tokens).type)
         IN  IF fed.ok THEN FeedAll(fed.stack, Tail(tokens)) ELSE fed

(***************************************************************************)
(* get_parser_state, parse_partial, analyze_incremental.  Each gives the   *)
(* registry after the call (reg), the value returned (ret) and the calls   *)
(* of _get_consistent_state_id it made (log).                              *)
(***************************************************************************)
\* Line 139 slicing from the bottom of the stack: consistent_stack[:top_k].
Truncate_Head(consistent_stack, k) ==
    IF k = <<>> THEN consistent_stack ELSE PySliceTo(consistent_stack, k[1])

\* consistent_stack if top_k is None else consistent_stack[-top_k:]
Truncate(consistent_stack, k) ==
    IF k = <<>> THEN consistent_stack ELSE PySliceFrom(consistent_stack, -k[1])

\* get_parser_state(interactive_parser, top_k), lines 124-141.
get_parser_state(reg, h, stack, k) ==
    LET raw_state_id == stack[Len(stack)]         \* parser_state.position
        raw_stack == stack
    IN  The({The({
            LET consistent_state_id == current.id
                consistent_stack == rest.ids
            IN  [reg |-> rest.reg,
                 ret |-> [current_state |-> consistent_state_id,
                          stack |-> Truncate(consistent_stack, k),
                          stack_top |-> IF consistent_stack # <<>>
                                        THEN consistent_stack[Len(consistent_stack)]
                                        ELSE None],
                 log |-> CallLog(<<raw_state_id>> \o raw_stack,
                                 <<consistent_state_id>> \o consistent_stack)] :
            rest \in {ResolveAll(current.reg, h, raw_stack)}}) :
          current \in {_get_consistent_state_id(reg, h, raw_state_id)}})

\* top_k=3, the default of get_parser_state (line 119).
DefaultTopK == 3

\* Failure without the try of line 155: the exception reaches the caller.
Failure_Uncaught(message) == [raised |-> TRUE, error |-> message]

\* The result of the except branch, lines 166-170.
Failure(message) == [error |-> message, success |-> FALSE]

\* Snapshot with end-of-input fed to the session after the tokens: a state with
\* no action for it gives the except branch.
Snapshot_FeedEnd(reg, h, fed, remainder) ==
    IF ~fed.ok \/ "$END" \notin DOMAIN Table(fed.stack[Len(fed.stack)])
    THEN [reg |-> reg, ret |-> Failure("UnexpectedToken"), log |-> <<>>]
    ELSE The({[reg |-> snap.reg,
               ret |-> [current_state |-> snap.ret.current_state,
                        stack |-> snap.ret.stack,
                        stack_top |-> snap.ret.stack_top,
                        remainder |-> remainder],
               log |-> snap.log] :
              snap \in {get_parser_state(reg, h, fed.stack, <<DefaultTopK>>)}})

\* The result of parse_partial after its tokens were fed: lines 162-164 on the
\* session's stack, or the except branch when feed_token raised.
Snapshot(reg, h, fed, remainder) ==
    IF ~fed.ok
    THEN [reg |-> reg, ret |-> Failure("UnexpectedToken"), log |-> <<>>]
    ELSE The({[reg |-> snap.reg,
               ret |-> [current_state |-> snap.ret.current_state,
                        stack |-> snap.ret.stack,
                        stack_top |-> snap.ret.stack_top,
                        remainder |-> remainder],
               log |-> snap.log] :
              snap \in {get_parser_state(reg, h, fed.stack, <<DefaultTopK>>)}})

\* parse_partial(sequence, top_k) with tokens=None, as every caller in the
\* repository calls it (lines 155-170).  top_k is not passed on to
\* get_parser_state.
parse_partial(reg, h, text, k) ==
    The({IF lexed.raised
         THEN [reg |-> reg, ret |-> Failure("UnexpectedCharacters"), log |-> <<>>]
         ELSE The({Snapshot(reg, h, fed, lexed.remainder) :
                     fed \in {FeedAll(parse_interactive, lexed.tokens)}}) :
         lexed \in {get_tokens_with_remainder(text)}})

\* TraceFailure with the position of the start of the text.
TraceFailure_AtStart(text, message) ==
    [position |-> 0, error |-> message, success |-> FALSE]

\* The record of the except branch of analyze_incremental, lines 195-201.
TraceFailure(text, message) ==
    [position |-> Len(text), error |-> message, success |-> FALSE]

\* Lines 188-192: the record of the step that fed the token of 0-based index i.
StepRecord(snapshot, all_tokens, i) ==
    [current_state |-> snapshot.current_state,
     stack |-> snapshot.stack,
     stack_top |-> snapshot.stack_top,
     success |-> TRUE,
     text |-> SubSeq(all_tokens, 1, i + 1),
     position |-> i + 1]

\* The loop of lines 185-192 from the token of 0-based index i on.  raised is
\* TRUE when feed_token raised.
RECURSIVE AnalyzeLoop(_, _, _, _, _, _, _)
AnalyzeLoop(reg, h, stack, all_tokens, i, results, log) ==
    IF i >= Len(all_tokens)
    THEN [reg |-> reg, results |-> results, log |-> log, raised |-> FALSE]
    ELSE The({
            IF ~fed.ok
            THEN [reg |-> reg, results |-> results, log |-> log, raised |-> TRUE]
            ELSE The({AnalyzeLoop(snap.reg, h, fed.stack, all_tokens, i + 1,
                                  Append(results, StepRecord(snap.ret, all_tokens, i)),
                                  log \o snap.log) :
                        snap \in {get_parser_state(reg, h, fed.stack, <<DefaultTopK>>)}}) :
            fed \in {feed_token(stack, all_tokens[i + 1].type)}})

\* results[-1]['remainder'] = remainder
WithRemainder(r, remainder) ==
    [current_state |-> r.current_state, stack |-> r.stack,
     stack_top |-> r.stack_top, success |-> r.success, text |-> r.text,
     position |-> r.position, remainder |-> remainder]

\* Trace with the except branch returning its record alone, the records of the
\* earlier steps dropped.
Trace_DropOnFailure(loop, text, remainder) ==
    LET n == Len(loop.results)
    IN  IF loop.raised
        THEN <<TraceFailure(text, "UnexpectedToken")>>
        ELSE IF n = 0
        THEN <<TraceFailure(text, "list index out of range")>>
        ELSE [loop.results EXCEPT ![n] = WithRemainder(loop.results[n], remainder)]

\* Lines 193-203 once the loop has ended: the remainder put on the last record,
\* or the record of the except branch appended.
Trace(loop, text, remainder) ==
    LET n == Len(loop.results)
    IN  IF loop.raised
        THEN Append(loop.results, TraceFailure(text, "UnexpectedToken"))
        ELSE IF n = 0     \* results[-1] of an empty list raises IndexError
        THEN <<TraceFailure(text, "list index out of range")>>
        ELSE [loop.results EXCEPT ![n] = WithRemainder(loop.results[n], remainder)]

\* analyze_incremental(sequence), lines 175-203.
analyze_incremental(reg, h, text) ==
    The({IF lexed.raised
         THEN [reg |-> reg, ret |-> <<TraceFailure(text, "UnexpectedCharacters")>>,
               log |-> <<>>]
         ELSE The({[reg |-> loop.reg,
                    ret |-> Trace(loop, text, lexed.remainder),
                    log |-> loop.log] :
                   loop \in {AnalyzeLoop(reg, h, parse_interactive, lexed.tokens, 0,
                                         <<>>, <<>>)}}) :
         lexed \in {get_tokens_with_remainder(text)}})

(***************************************************************************)
(* analyze_incremental of src/lark-test.py, the restart-per-prefix         *)
(* analyzer: for every prefix length i a new session is fed tokens 0..i.   *)
(***************************************************************************)
\* self.grammar_hash (line 20), the same in every record of one tracker.
GrammarHash == "grammar_hash"

\* The record of the except branch, lines 186-193.
ReplayFailure(text, message) ==
    [position |-> Len(text), error |-> message, success |-> FALSE,
     grammar_hash |-> GrammarHash]

\* Lines 173-184: the record for the prefix of i tokens.
ReplayRecord(snapshot, raw_stack, text, all_tokens, i) ==
    LET token_position == IF i = 0 THEN 0 ELSE all_tokens[i].end_pos
    IN  [position |-> token_position,
         tokens_parsed |-> i,
         text |-> IF token_position > 0 THEN PySliceTo(text, token_position) ELSE <<>>,
         current_state |-> snapshot.current_state,
         stack |-> snapshot.stack,
         raw_stack |-> raw_stack,
         success |-> TRUE]

\* The loop of lines 150-184 from prefix length i on: a new session, the first i
\* tokens fed, the position and the whole stack resolved (lines 162-171 are
\* get_parser_state with top_k=None).  A feed that raises ends the loop with the
\* record of the except branch.
RECURSIVE ReplayLoop(_, _, _, _, _, _)
ReplayLoop(reg, h, text, all_tokens, i, results) ==
    IF i > Len(all_tokens)
    THEN [reg |-> reg, ret |-> results]
    ELSE The({
            IF ~fed.ok
            THEN [reg |-> reg,
                  ret |-> Append(results, ReplayFailure(text, "UnexpectedToken"))]
            ELSE The({ReplayLoop(snap.reg, h, text, all_tokens, i + 1,
                                 Append(results,
                                        ReplayRecord(snap.ret, fed.stack, text,
                                                     all_tokens, i))) :
                        snap \in {get_parser_state(reg, h, fed.stack, <<>>)}}) :
            fed \in {FeedAll(parse_interactive, SubSeq(all_tokens, 1, i))}})

\* analyze_incremental(sequence) of src/lark-test.py, lines 142-195.  get_tokens
\* raises on a character no terminal matches; the except branch records it.
analyze_incremental_replay(reg, h, text) ==
    The({IF lexed.err # NoError
         THEN [reg |-> reg, ret |-> <<ReplayFailure(text, "UnexpectedCharacters")>>]
         ELSE ReplayLoop(reg, h, text, lexed.tokens, 0, <<>>) :
         lexed \in {Lex(text)}})

(***************************************************************************)
(* The state after construction (__init__).                                *)
(***************************************************************************)
NoResult == [kind |-> "none"]

\* No batch is running; no second tracker exists.
NoBatch == [pc |-> "none"]

NoOther == [kind |-> "none"]

\* No worker is running.
NoWorkers == <<>>

InitTracker ==
    /\ _state_mapping = <<>>
    /\ _state_counter = 0
    /\ hashOf = <<>>
    /\ state_stack = <<>>
    /\ issued = {}
    /\ firstSeen = <<>>
    /\ batch = NoBatch
    /\ other = NoOther
    /\ table_order = <<>>
    /\ workers = NoWorkers

(***************************************************************************)
(* SpecLex: get_tokens_with_remainder applied to every text of at most     *)
(* MaxLexLen characters.                                                   *)
(***************************************************************************)
InitLex ==
    /\ InitTracker
    /\ op = "init"
    /\ sequence \in SeqsUpTo(Chars, MaxLexLen)
    /\ top_k = <<>>
    /\ result = NoResult

GetTokensWithRemainder ==
    /\ op = "init"
    /\ op' = "get_tokens_with_remainder"
    /\ result' = get_tokens_with_remainder(sequence)
    /\ UNCHANGED <<_state_mapping, _state_counter, hashOf, state_stack,
                   sequence, top_k, issued, firstSeen, batch, other,
                   table_order, workers>>

NextLex == GetTokensWithRemainder

SpecLex == InitLex /\ [][NextLex]_vars

(***************************************************************************)
(* Spec: one tracker; _get_consistent_state_id, parse_partial and          *)
(* analyze_incremental are called on it in any order.                      *)
(***************************************************************************)
Registry == [mapping |-> _state_mapping, counter |-> _state_counter]

\* firstSeen extended by the fingerprints the calls of log resolved.
RECURSIVE ExtendSeen(_, _)
ExtendSeen(seen, log) ==
    IF log = <<>> THEN seen
    ELSE LET fp == _get_state_fingerprint(Head(log).raw)
         IN  IF fp.none \/ \E i \in 1..Len(seen) : seen[i] = KeyOf[fp.parts]
             THEN ExtendSeen(seen, Tail(log))
             ELSE ExtendSeen(Append(seen, KeyOf[fp.parts]), Tail(log))

\* The registry and the record of the calls after an operation.
Commit(h, out) ==
    /\ hashOf' = h
    /\ _state_mapping' = out.reg.mapping
    /\ _state_counter' = out.reg.counter
    /\ issued' = issued \cup {<<out.log[i].raw, out.log[i].id>> : i \in 1..Len(out.log)}
    /\ firstSeen' = ExtendSeen(firstSeen, out.log)

\* The bound on the fingerprints a tracker of Spec resolves.
WithinBound == Len(firstSeen') <= MaxSeen

\* The texts given to parse_partial and analyze_incremental in Spec.
InputTexts == {<<>>, <<"1">>, <<"(", "(">>, <<"1", "+">>, <<"1", ")">>, <<"#">>}

\* The top_k given to parse_partial.
TopKs == {<<>>, <<2>>}

Init ==
    /\ InitTracker
    /\ op = "init"
    /\ sequence = <<>>
    /\ top_k = <<>>
    /\ result = NoResult

Resolve(state_id) ==
    \E h \in HashExtensions(hashOf, <<state_id>>) :
        \E r \in {_get_consistent_state_id(Registry, h, state_id)} :
            /\ Commit(h, [reg |-> r.reg,
                          log |-> <<[raw |-> state_id, id |-> r.id]>>])
            /\ WithinBound
            /\ op' = "_get_consistent_state_id"
            /\ result' = [state_id |-> state_id, id |-> r.id]
            /\ UNCHANGED <<state_stack, sequence, top_k, batch, other,
                   table_order, workers>>

ParsePartial(text, k) ==
    \E calls \in {parse_partial(Registry, InjectiveHash, text, k).log} :
        \E h \in HashExtensions(hashOf, [i \in 1..Len(calls) |-> calls[i].raw]) :
            \E out \in {parse_partial(Registry, h, text, k)} :
                /\ Commit(h, out)
                /\ op' = "parse_partial"
                /\ sequence' = text
                /\ top_k' = k
                /\ result' = out.ret
                /\ UNCHANGED <<state_stack, batch, other,
                   table_order, workers>>

AnalyzeIncremental(text) ==
    \E calls \in {analyze_incremental(Registry, InjectiveHash, text).log} :
        \E h \in HashExtensions(hashOf, [i \in 1..Len(calls) |-> calls[i].raw]) :
            \E out \in {analyze_incremental(Registry, h, text)} :
                /\ Commit(h, out)
                /\ op' = "analyze_incremental"
                /\ sequence' = text
                /\ result' = out.ret
                /\ UNCHANGED <<state_stack, top_k, batch, other,
                   table_order, workers>>

Next ==
    \/ \E s \in RawStates \cup {UnknownState} : Resolve(s)
    \/ \E text \in InputTexts : ParsePartial(text, <<>>) /\ WithinBound
    \/ \E text \in InputTexts : AnalyzeIncremental(text) /\ WithinBound

Spec == Init /\ [][Next]_vars

(***************************************************************************)
(* SpecParse: parse_partial or analyze_incremental called on a new tracker *)
(* with every text of at most MaxParseLen characters.                      *)
(***************************************************************************)
InitParse ==
    /\ InitTracker
    /\ op = "init"
    /\ sequence \in SeqsUpTo(Chars, MaxParseLen)
    /\ top_k \in TopKs
    /\ result = NoResult

ParsePartialCall == op = "init" /\ ParsePartial(sequence, top_k)

AnalyzeIncrementalCall == op = "init" /\ top_k = <<>> /\ AnalyzeIncremental(sequence)

NextParse == ParsePartialCall \/ AnalyzeIncrementalCall

SpecParse == InitParse /\ [][NextParse]_vars

(***************************************************************************)
(* SpecSession: one interactive parser of a new tracker, fed token by      *)
(* token and then read by get_parser_state, any number of times.           *)
(***************************************************************************)
\* The types of the tokens the lexer yields.
TokenTypes == {"NUMBER", "PLUS", "MINUS", "LPAR", "RPAR"}

SnapshotTopKs == {<<>>} \cup {<<k>> : k \in 0..MaxSnapshotTopK}

InitSession ==
    /\ _state_mapping = <<>>
    /\ _state_counter = 0
    /\ hashOf = <<>>
    /\ state_stack = parse_interactive
    /\ issued = {}
    /\ firstSeen = <<>>
    /\ batch = NoBatch
    /\ other = NoOther
    /\ table_order = <<>>
    /\ workers = NoWorkers
    /\ op = "parse_interactive"
    /\ sequence = <<>>
    /\ top_k = <<>>
    /\ result = NoResult

\* interactive.feed_token(token) for a token the automaton consumes.
FeedToken(type) ==
    \E fed \in {feed_token(state_stack, type)} :
        /\ op # "get_parser_state"
        /\ fed.ok
        /\ Len(fed.stack) <= MaxDepth
        /\ state_stack' = fed.stack
        /\ op' = "feed_token"
        /\ result' = NoResult
        /\ UNCHANGED <<_state_mapping, _state_counter, hashOf, sequence, top_k,
                       issued, firstSeen, batch, other,
                   table_order, workers>>

GetParserState(k) ==
    \E h \in HashExtensions(hashOf, state_stack) :
        \E out \in {get_parser_state(Registry, h, state_stack, k)} :
            /\ Commit(h, out)
            /\ op' = "get_parser_state"
            /\ top_k' = k
            /\ result' = out.ret
            /\ UNCHANGED <<state_stack, sequence, batch, other,
                   table_order, workers>>

NextSession ==
    \/ \E type \in TokenTypes : FeedToken(type)
    \/ \E k \in SnapshotTopKs : GetParserState(k)

SpecSession == InitSession /\ [][NextSession]_vars

(***************************************************************************)
(* SpecRuns: two new trackers of independent runs on the same grammar.     *)
(* The automaton of the second run is the automaton with its raw state ids *)
(* renumbered by a bijection, so its sessions make the moves of the first  *)
(* run's sessions, renumbered, and its tracker resolves state perm[s]      *)
(* where the first resolves s.  Each run has its own hash function.  The   *)
(* same calls of parse_partial and analyze_incremental are made on both.   *)
(***************************************************************************)
\* The renumberings of the raw state ids: reversed, rotated by one, and the two
\* states that reduce by a rule of sum of length 3 swapped.
Renumberings ==
    {[s \in RawStates |-> Len(ParseTableStates) - 1 - s],
     [s \in RawStates |-> (s + 1) % Len(ParseTableStates)],
     [s \in RawStates |-> IF s = 8 THEN 11 ELSE IF s = 11 THEN 8 ELSE s]}

\* parse_table.states of the renumbered automaton: state perm[s] has the entries
\* of state s, with the target of every Shift renumbered.
RenumberedTable(perm) ==
    [n \in 1..Len(ParseTableStates) |->
        LET s == CHOOSE r \in RawStates : perm[r] = n - 1
        IN  [t \in DOMAIN Table(s) |->
                IF Table(s)[t].type = "Shift"
                THEN Shift(perm[Table(s)[t].target])
                ELSE Table(s)[t]]]

\* _get_state_fingerprint on the renumbered automaton, for each of its states.
RenumberedFingerprintOf ==
    [perm \in Renumberings |->
        [t \in RawStates |-> SortedParts(RenumberedTable(perm)[t + 1], 1)]]

\* Two states have equal fingerprints in the automaton exactly when their
\* renumbered states have equal fingerprints in the renumbered automaton.  The
\* fingerprint of state perm[s] can then be named by the key of s, and a hash
\* function of the second run is a function of these keys.
SamePartition(perm) ==
    \A s, t \in RawStates :
        (FingerprintOf[s] = FingerprintOf[t])
            <=> (RenumberedFingerprintOf[perm][perm[s]]
                    = RenumberedFingerprintOf[perm][perm[t]])

OtherRegistry == [mapping |-> other.mapping, counter |-> other.counter]

InitRuns ==
    /\ _state_mapping = <<>>
    /\ _state_counter = 0
    /\ hashOf = <<>>
    /\ state_stack = <<>>
    /\ issued = {}
    /\ firstSeen = <<>>
    /\ batch = NoBatch
    /\ table_order = <<>>
    /\ workers = NoWorkers
    /\ op = "init"
    /\ sequence = <<>>
    /\ top_k = <<>>
    /\ result = NoResult
    /\ \E perm \in Renumberings :
          other = [kind |-> "tracker", perm |-> perm, mapping |-> <<>>,
                   counter |-> 0, hashOf |-> <<>>, result |-> NoResult]

\* The second tracker after a call that left it with registry reg and hash
\* function g and returned ret.
OtherAfter(g, out) ==
    [other EXCEPT !.mapping = out.reg.mapping, !.counter = out.reg.counter,
                  !.hashOf = g, !.result = out.ret]

\* parse_partial(text, k) called on both trackers.
ParsePartialBoth(text, k) ==
    \E calls \in {parse_partial(Registry, InjectiveHash, text, k).log} :
        \E raws \in {[i \in 1..Len(calls) |-> calls[i].raw]} :
            \E h \in HashExtensions(hashOf, raws),
               g \in HashExtensions(other.hashOf, raws) :
                \E out \in {parse_partial(Registry, h, text, k)},
                   out2 \in {parse_partial(OtherRegistry, g, text, k)} :
                    /\ Commit(h, out)
                    /\ WithinBound
                    /\ op' = "parse_partial"
                    /\ sequence' = text
                    /\ top_k' = k
                    /\ result' = out.ret
                    /\ other' = OtherAfter(g, out2)
                    /\ UNCHANGED <<state_stack, batch, table_order, workers>>

\* analyze_incremental(text) called on both trackers.
AnalyzeIncrementalBoth(text) ==
    \E calls \in {analyze_incremental(Registry, InjectiveHash, text).log} :
        \E raws \in {[i \in 1..Len(calls) |-> calls[i].raw]} :
            \E h \in HashExtensions(hashOf, raws),
               g \in HashExtensions(other.hashOf, raws) :
                \E out \in {analyze_incremental(Registry, h, text)},
                   out2 \in {analyze_incremental(OtherRegistry, g, text)} :
                    /\ Commit(h, out)
                    /\ WithinBound
                    /\ op' = "analyze_incremental"
                    /\ sequence' = text
                    /\ result' = out.ret
                    /\ other' = OtherAfter(g, out2)
                    /\ UNCHANGED <<state_stack, top_k, batch, table_order, workers>>

NextRuns ==
    \/ \E text \in InputTexts : ParsePartialBoth(text, <<>>)
    \/ \E text \in InputTexts : AnalyzeIncrementalBoth(text)

SpecRuns == InitRuns /\ [][NextRuns]_vars

(***************************************************************************)
(* SpecFingerprint: _get_state_fingerprint called on any raw state, with   *)
(* the items of the state's table coming in any order.                     *)
(***************************************************************************)
InitFingerprint ==
    /\ InitTracker
    /\ op = "init"
    /\ sequence = <<>>
    /\ top_k = <<>>
    /\ result = NoResult

GetStateFingerprint(state_id) ==
    \E order \in IF state_id \in RawStates THEN TableOrders(Table(state_id))
                  ELSE {<<>>} :
        \E fingerprint \in {FingerprintInOrder(state_id, order)} :
            /\ op' = "_get_state_fingerprint"
            /\ table_order' = order
            /\ result' = [state_id |-> state_id, none |-> fingerprint.none,
                          parts |-> fingerprint.parts]
            /\ UNCHANGED <<_state_mapping, _state_counter, hashOf, state_stack,
                           sequence, top_k, issued, firstSeen, batch, other,
                           workers>>

NextFingerprint == \E state_id \in RawStates \cup {UnknownState} :
                       GetStateFingerprint(state_id)

SpecFingerprint == InitFingerprint /\ [][NextFingerprint]_vars

(***************************************************************************)
(* SpecWorkers: MaxWorkers workers share one tracker and each calls        *)
(* _get_consistent_state_id once.  The method takes no lock, so its        *)
(* statements are the steps and the workers' steps interleave in any       *)
(* order.  No hashes collide.  A worker is its place in the method (pc),   *)
(* its state_id and, once computed, its local fingerprint_hash and the id  *)
(* it returned.                                                            *)
(***************************************************************************)
InitWorkers ==
    /\ _state_mapping = <<>>
    /\ _state_counter = 0
    /\ hashOf = InjectiveHash
    /\ state_stack = <<>>
    /\ issued = {}
    /\ firstSeen = <<>>
    /\ batch = NoBatch
    /\ other = NoOther
    /\ table_order = <<>>
    /\ op = "_get_consistent_state_id"
    /\ sequence = <<>>
    /\ top_k = <<>>
    /\ result = NoResult
    /\ workers \in [1..MaxWorkers ->
                      {[pc |-> "fingerprint", state_id |-> s] :
                          s \in RawStates \cup {UnknownState}}]

\* What a step of worker w leaves alone, the other workers included.
WorkerFrame ==
    UNCHANGED <<hashOf, state_stack, op, sequence, top_k, result, firstSeen,
                batch, other, table_order>>

\* Lines 107-112: the fingerprint, None returned for a state not in the table,
\* else its hash.
WorkerFingerprint(w) ==
    /\ workers[w].pc = "fingerprint"
    /\ LET state_id == workers[w].state_id
           fingerprint == _get_state_fingerprint(state_id)
       IN  IF fingerprint.none
           THEN /\ workers' = [workers EXCEPT ![w] =
                        [pc |-> "done", state_id |-> state_id, ret |-> None]]
                /\ issued' = issued \cup {<<state_id, None>>}
           ELSE /\ workers' = [workers EXCEPT ![w] =
                        [pc |-> "check", state_id |-> state_id,
                         fingerprint_hash |-> PyHash(hashOf, fingerprint.parts)]]
                /\ UNCHANGED issued
    /\ UNCHANGED <<_state_mapping, _state_counter>>
    /\ WorkerFrame

\* Line 113: if fingerprint_hash not in self._state_mapping.
WorkerCheck(w) ==
    /\ workers[w].pc = "check"
    /\ workers' = [workers EXCEPT ![w].pc =
                      IF workers[w].fingerprint_hash \notin DOMAIN _state_mapping
                      THEN "store" ELSE "read"]
    /\ UNCHANGED <<_state_mapping, _state_counter, issued>>
    /\ WorkerFrame

\* Line 114: self._state_mapping[fingerprint_hash] = f"S{self._state_counter}".
WorkerStore(w) ==
    /\ workers[w].pc = "store"
    /\ _state_mapping' =
          (workers[w].fingerprint_hash :> CanonicalId(_state_counter))
              @@ _state_mapping
    /\ workers' = [workers EXCEPT ![w].pc = "increment"]
    /\ UNCHANGED <<_state_counter, issued>>
    /\ WorkerFrame

\* Line 115: self._state_counter += 1.
WorkerIncrement(w) ==
    /\ workers[w].pc = "increment"
    /\ _state_counter' = _state_counter + 1
    /\ workers' = [workers EXCEPT ![w].pc = "read"]
    /\ UNCHANGED <<_state_mapping, issued>>
    /\ WorkerFrame

\* Line 117: return self._state_mapping[fingerprint_hash].
WorkerReturn(w) ==
    /\ workers[w].pc = "read"
    /\ LET ret == _state_mapping[workers[w].fingerprint_hash]
       IN  /\ workers' = [workers EXCEPT ![w] =
                   [pc |-> "done", state_id |-> workers[w].state_id,
                    fingerprint_hash |-> workers[w].fingerprint_hash,
                    ret |-> ret]]
           /\ issued' = issued \cup {<<workers[w].state_id, ret>>}
    /\ UNCHANGED <<_state_mapping, _state_counter>>
    /\ WorkerFrame

NextWorkers ==
    \E w \in 1..MaxWorkers :
        \/ WorkerFingerprint(w)
        \/ WorkerCheck(w)
        \/ WorkerStore(w)
        \/ WorkerIncrement(w)
        \/ WorkerReturn(w)

SpecWorkers == InitWorkers /\ [][NextWorkers]_vars

(***************************************************************************)
(* SpecDataset: GrammarGuidedLLM.process_dataset (src/GrammarGuidedLLM.py) *)
(* over a dataset of at most MaxItems items; an item is its index in the   *)
(* dataset.  One step is one iteration of the loop.  What process_instance *)
(* and parser_extractor.reset() do is outside the sources: each may return *)
(* or raise.                                                               *)
(***************************************************************************)
Outcomes == {"returns", "raises"}

InitDataset ==
    /\ _state_mapping = <<>>
    /\ _state_counter = 0
    /\ hashOf = <<>>
    /\ state_stack = <<>>
    /\ issued = {}
    /\ firstSeen = <<>>
    /\ other = NoOther
    /\ table_order = <<>>
    /\ workers = NoWorkers
    /\ op = "process_dataset"
    /\ sequence = <<>>
    /\ top_k = <<>>
    /\ result = NoResult
    /\ \E n \in 0..MaxItems :
          batch = [pc |-> "loop",
                   dataset |-> [i \in 1..n |-> i],
                   next |-> 1,
                   all_instances |-> <<>>,   \* all_instances = []
                   processed |-> {},         \* items given to process_instance
                   raised |-> {}]            \* items whose processing raised

\* One iteration of the loop, lines 47-56: process_instance(instance) returns
\* or raises; when it returned, its result is appended and reset() is called,
\* which returns or raises.  Every exception is caught and the loop continues.
ProcessItem(instance_outcome, reset_outcome) ==
    /\ batch.pc = "loop"
    /\ batch.next <= Len(batch.dataset)
    /\ instance_outcome = "raises" => reset_outcome = "returns"
    /\ LET instance == batch.dataset[batch.next]
       IN  batch' = [batch EXCEPT
              !.next = @ + 1,
              !.processed = @ \cup {instance},
              !.all_instances = IF instance_outcome = "returns"
                                THEN Append(@, instance) ELSE @,
              !.raised = IF "raises" \in {instance_outcome, reset_outcome}
                         THEN @ \cup {instance} ELSE @]
    /\ UNCHANGED <<_state_mapping, _state_counter, hashOf, state_stack, op,
                   sequence, top_k, result, issued, firstSeen, other,
                   table_order, workers>>

\* return all_instances, line 57.
ReturnAllInstances ==
    /\ batch.pc = "loop"
    /\ batch.next > Len(batch.dataset)
    /\ batch' = [batch EXCEPT !.pc = "returned"]
    /\ result' = batch.all_instances
    /\ UNCHANGED <<_state_mapping, _state_counter, hashOf, state_stack, op,
                   sequence, top_k, issued, firstSeen, other,
                   table_order, workers>>

NextDataset ==
    \/ \E instance_outcome, reset_outcome \in Outcomes :
          ProcessItem(instance_outcome, reset_outcome)
    \/ ReturnAllInstances

SpecDataset == InitDataset /\ [][NextDataset]_vars

(***************************************************************************)
(* Claims about get_tokens_with_remainder, checked under SpecLex.          *)
(***************************************************************************)
Lexed == op = "get_tokens_with_remainder"

\* The characters no terminal of the grammar matches.
Unlexable == Chars \ (Digits \cup Blanks \cup DOMAIN Punct)

HasUnlexable(text) == \E i \in 1..Len(text) : text[i] \in Unlexable

\* The 0-based offset of the first character matching no terminal.
FirstUnlexable(text) ==
    CHOOSE p \in 0..(Len(text) - 1) :
        /\ text[p + 1] \in Unlexable
        /\ \A q \in 0..(p - 1) : text[q + 1] \notin Unlexable

\* The offset in the text at which a returned remainder starts.
RemainderStart == Len(sequence) - Len(result.remainder)

\* C7: get_tokens_with_remainder never raises on an un-lexable span: with the
\* first character matching no terminal at offset p, it returns exactly the
\* tokens the lexer recognized before p and the suffix of the text from p.
C7_UnlexableSplit ==
    (Lexed /\ HasUnlexable(sequence)) =>
        LET p == FirstUnlexable(sequence)
        IN  /\ ~result.raised
            /\ result.tokens = Lex(sequence).tokens
            /\ \A i \in 1..Len(result.tokens) : result.tokens[i].end_pos <= p
            /\ result.remainder = SubSeq(sequence, p + 1, Len(sequence))

\* "1 # 1": the token for "1" and the remainder "# 1".
C7_Witness ==
    /\ Lexed
    /\ sequence = <<"1", " ", "#", " ", "1">>
    /\ ~result.raised
    /\ Len(result.tokens) = 1
    /\ result.tokens[1].type = "NUMBER"
    /\ result.remainder = <<"#", " ", "1">>

\* C8: for every text that is empty or fully tokenizable (every character is in
\* a token or in an ignored class), get_tokens_with_remainder returns an empty
\* remainder.
C8_FullyTokenizableEmptyRemainder ==
    (Lexed /\ ~HasUnlexable(sequence)) =>
        (~result.raised /\ result.remainder = <<>>)

\* C9: the result splits the text without gap or overlap: the remainder is a
\* suffix of the text, every token's span lies before the offset where the
\* remainder starts and holds the token's text, the spans are in order and
\* disjoint, and the characters before that offset that no token covers are
\* of ignored classes.
C9_Coverage ==
    Lexed =>
        /\ ~result.raised
        /\ RemainderStart >= 0
        /\ result.remainder = SubSeq(sequence, RemainderStart + 1, Len(sequence))
        /\ \A i \in 1..Len(result.tokens) :
              LET t == result.tokens[i]
              IN  /\ 0 <= t.start_pos
                  /\ t.start_pos < t.end_pos
                  /\ t.end_pos <= RemainderStart
                  /\ t.value = SubSeq(sequence, t.start_pos + 1, t.end_pos)
                  /\ i > 1 => result.tokens[i - 1].end_pos <= t.start_pos
        /\ \A q \in 0..(RemainderStart - 1) :
              \/ \E i \in 1..Len(result.tokens) :
                    /\ result.tokens[i].start_pos <= q
                    /\ q < result.tokens[i].end_pos
              \/ sequence[q + 1] \in Blanks

\* A text with tokens, ignored characters between them and an un-lexable tail.
C9_Witness ==
    /\ Lexed
    /\ sequence = <<"1", " ", "+", "#", "1">>
    /\ Len(result.tokens) = 2
    /\ result.remainder = <<"#", "1">>

(***************************************************************************)
(* Claims about the registry, checked under Spec.                          *)
(***************************************************************************)
\* The (raw state, id) pairs returned for raw states of the table.
IssuedKnown == {p \in issued : p[1] \in RawStates}

\* C1: within one tracker, _get_consistent_state_id returns the same id for the
\* same raw state on every call, whatever calls of _get_consistent_state_id,
\* parse_partial or analyze_incremental happen in between.
C1_SameRawSameId ==
    \A p, q \in issued : p[1] = q[1] => p[2] = q[2]

\* No hashes collide; raw state 4 got S0, another fingerprint was given S1 after
\* it, and a later call for raw state 4 returned S0 again.
C1_Witness ==
    /\ op = "_get_consistent_state_id"
    /\ Colliders(hashOf) = {}
    /\ result.state_id = 4
    /\ result.id = "S0"
    /\ _state_counter >= 2
    /\ \E p \in issued : p[1] # 4 /\ p[2] = "S1"

\* C2: two raw states whose fingerprints differ never hold the same canonical
\* id, and two raw states whose fingerprints are equal always hold the same one.
C2_Injective ==
    \A p, q \in IssuedKnown :
        (FingerprintOf[p[1]] = FingerprintOf[q[1]]) <=> (p[2] = q[2])

\* C3: the registry never shrinks and never rewrites an entry: every
\* association of a fingerprint with the id returned for it is still in the
\* registry, and no id is handed to a second fingerprint.
C3_NeverRewritten ==
    /\ \A p \in IssuedKnown :
          LET fingerprint_hash == PyHash(hashOf, FingerprintOf[p[1]])
          IN  /\ fingerprint_hash \in DOMAIN _state_mapping
              /\ _state_mapping[fingerprint_hash] = p[2]
    /\ \A p, q \in IssuedKnown :
          p[2] = q[2] => FingerprintOf[p[1]] = FingerprintOf[q[1]]

\* C4: ids are minted densely in first-seen order: the k-th distinct fingerprint
\* resolved has the id "S<k-1>", and _state_counter is the number of entries of
\* _state_mapping.
C4_DenseFirstSeen ==
    /\ \A k \in 1..Len(firstSeen) :
          \A p \in IssuedKnown :
              KeyOf[FingerprintOf[p[1]]] = firstSeen[k] => p[2] = CanonicalId(k - 1)
    /\ _state_counter = Cardinality(DOMAIN _state_mapping)

(***************************************************************************)
(* Claims about get_parser_state, checked under SpecSession.               *)
(***************************************************************************)
\* The last n elements of s (all of s when it has fewer).
LastN(s, n) == SubSeq(s, Len(s) - Min(n, Len(s)) + 1, Len(s))

\* The canonical stack get_parser_state returns for top_k=None in this state.
FullStack == get_parser_state(Registry, hashOf, state_stack, <<>>).ret.stack

\* C5: for every stack depth d >= 1 and every top_k >= 0 the stack returned by
\* get_parser_state has length min(top_k, d) and is the last top_k elements of
\* the stack returned with top_k=None; top_k=None returns the full stack.
C5_TruncationLaw ==
    op = "get_parser_state" =>
        /\ Len(FullStack) = Len(state_stack)
        /\ IF top_k = <<>>
           THEN result.stack = FullStack
           ELSE /\ Len(result.stack) = Min(top_k[1], Len(state_stack))
                /\ result.stack = LastN(FullStack, top_k[1])

(***************************************************************************)
(* Claims about parse_partial and analyze_incremental, checked under       *)
(* SpecParse.                                                              *)
(***************************************************************************)
\* The tokens the lexer gives for the text, and the session after feeding them.
TokensOf(text) == get_tokens_with_remainder(text).tokens

Fed(text) == FeedAll(parse_interactive, TokensOf(text))

\* C6: parse_partial(sequence, top_k) truncates the returned stack to the top_k
\* of its caller: the last top_k entries of the untruncated stack, and the full
\* stack for top_k=None.
C6_ParsePartialTruncates ==
    (op = "parse_partial" /\ "stack" \in DOMAIN result) =>
        LET full == ResolveAll(Registry, hashOf, Fed(sequence).stack).ids
        IN  result.stack = IF top_k = <<>> THEN full ELSE LastN(full, top_k[1])

\* C10: on a text that lexes to n >= 0 tokens the automaton consumes,
\* analyze_incremental returns n + 1 records (prefix lengths 0..n), all with
\* success=true; the empty text gives one record, with success=true.
C10_OneRecordPerPrefix ==
    (op = "analyze_incremental" /\ ~HasUnlexable(sequence) /\ Fed(sequence).ok) =>
        /\ Len(result) = Len(TokensOf(sequence)) + 1
        /\ \A i \in 1..Len(result) : result[i].success

\* The state on top of the session after the tokens of the text were fed
\* (parser_state.position).
PositionAfter(text) == Fed(text).stack[Len(Fed(text).stack)]

\* C11: parse_partial reports success=false when, the recognized tokens fed, the
\* parser is in a state with no action for end-of-input (as after "1+");
\* analyze_incremental's record for the 1-token prefix "1" has success=true.
C11_EndOfInputRejected ==
    /\ (/\ op = "parse_partial"
        /\ Fed(sequence).ok
        /\ "$END" \notin DOMAIN Table(PositionAfter(sequence)))
          => ("success" \in DOMAIN result /\ result.success = FALSE)
    /\ (op = "analyze_incremental" /\ sequence = <<"1">>)
          => (Len(result) >= 1 /\ result[1].success)

\* C11, amended: parse_partial feeds no end-of-input: when, the recognized
\* tokens fed, the parser is in a state with no action for end-of-input, it
\* returns the snapshot of that state (current_state, stack, stack_top and the
\* remainder) and reports no error; analyze_incremental's record for the
\* 1-token prefix "1" has success=true.
C11_EndOfInputNotFed ==
    /\ (/\ op = "parse_partial"
        /\ Fed(sequence).ok
        /\ "$END" \notin DOMAIN Table(PositionAfter(sequence)))
          => /\ {"current_state", "stack", "stack_top", "remainder"}
                    \subseteq DOMAIN result
             /\ "error" \notin DOMAIN result
             /\ "success" \notin DOMAIN result
             /\ result.current_state = result.stack_top
             /\ result.remainder = get_tokens_with_remainder(sequence).remainder
    /\ (op = "analyze_incremental" /\ sequence = <<"1">>)
          => (Len(result) >= 1 /\ result[1].success)

\* parse_partial("1+"): the state after "+" expects an operand; the result is
\* its snapshot.
C11_Witness ==
    /\ op = "parse_partial"
    /\ sequence = <<"1", "+">>
    /\ "$END" \notin DOMAIN Table(PositionAfter(sequence))
    /\ "current_state" \in DOMAIN result
    /\ Len(result.stack) = 3

\* C12: parse_partial and analyze_incremental never raise to their caller: for
\* every text they return a result, and a token the current state has no action
\* for is reported as a record with success=false and an error message.
C12_NeverRaises ==
    /\ op = "parse_partial" =>
          /\ "raised" \notin DOMAIN result
          /\ Fed(sequence).ok => "current_state" \in DOMAIN result
          /\ ~Fed(sequence).ok =>
                /\ {"success", "error"} \subseteq DOMAIN result
                /\ result.success = FALSE
    /\ op = "analyze_incremental" =>
          /\ \A i \in 1..Len(result) : "raised" \notin DOMAIN result[i]
          /\ ~Fed(sequence).ok =>
                /\ Len(result) >= 1
                /\ {"success", "error"} \subseteq DOMAIN result[Len(result)]
                /\ result[Len(result)].success = FALSE

\* parse_partial(")"): the automaton has no action for the token; the result is
\* the failure record.
C12_Witness ==
    /\ op = "parse_partial"
    /\ sequence = <<"1", ")">>
    /\ ~Fed(sequence).ok
    /\ "success" \in DOMAIN result
    /\ result.success = FALSE
    /\ result.error = "UnexpectedToken"

\* The number of tokens fed before the automaton rejects one.
RECURSIVE FedCount(_, _)
FedCount(stack, tokens) ==
    IF tokens = <<>> THEN 0
    ELSE LET fed == feed_token(stack, Head(tokens).type)
         IN  IF fed.ok THEN 1 + FedCount(fed.stack, Tail(tokens)) ELSE 0

\* The loop of analyze_incremental on a new tracker over the first j tokens of
\* the text: the records as they are when emitted, and the registry then.
EmittedLoop(text, j) ==
    AnalyzeLoop([mapping |-> <<>>, counter |-> 0], hashOf, parse_interactive,
                SubSeq(TokensOf(text), 1, j), 0, <<>>, <<>>)

\* C13: in analyze_incremental, when the automaton rejects the k-th token, the
\* records emitted for the steps before k are in the trace unchanged with
\* success=true, exactly one failure record follows them as the last record,
\* and no token after the rejected one is fed.
C13_RejectionIsTerminal ==
    (op = "analyze_incremental" /\ ~Fed(sequence).ok) =>
        LET j == FedCount(parse_interactive, TokensOf(sequence))
        IN  /\ Len(result) = j + 1
            /\ SubSeq(result, 1, j) = EmittedLoop(sequence, j).results
            /\ \A i \in 1..j : result[i].success /\ result[i].position = i
            /\ result[j + 1].success = FALSE
            /\ "error" \in DOMAIN result[j + 1]
            /\ Registry = EmittedLoop(sequence, j).reg

\* "1++": two steps succeed, the third token is rejected.
C13_Witness ==
    /\ op = "analyze_incremental"
    /\ sequence = <<"1", "+", "+">>
    /\ Len(result) = 3
    /\ result[1].success /\ result[2].success
    /\ result[3].success = FALSE

\* A record with a boolean success, with the state fields when it is true and
\* the error when it is false.
RecordWellFormed(r) ==
    /\ "success" \in DOMAIN r
    /\ r.success \in BOOLEAN
    /\ IF r.success
       THEN {"current_state", "stack", "stack_top"} \subseteq DOMAIN r
       ELSE "error" \in DOMAIN r

\* C14: every record parse_partial returns and every record of a trace of
\* analyze_incremental has a boolean success field; with success=true it carries
\* current_state, stack and stack_top, with success=false it carries error.
C14_SuccessField ==
    /\ op = "parse_partial" => RecordWellFormed(result)
    /\ op = "analyze_incremental" =>
          \A i \in 1..Len(result) : RecordWellFormed(result[i])

\* C15: for every text the last record of the trace of analyze_incremental
\* carries the remainder the lexer returned, and no earlier record carries one.
C15_LastRecordRemainder ==
    op = "analyze_incremental" =>
        /\ Len(result) >= 1
        /\ "remainder" \in DOMAIN result[Len(result)]
        /\ result[Len(result)].remainder =
              get_tokens_with_remainder(sequence).remainder
        /\ \A i \in 1..(Len(result) - 1) : "remainder" \notin DOMAIN result[i]

\* The offset in the text reached by the last token of a record's text (0 when
\* it has no token).
OffsetReached(r) == IF r.text = <<>> THEN 0 ELSE r.text[Len(r.text)].end_pos

\* C16: every success record of analyze_incremental has position equal to the
\* offset in the text reached by the last token fed, so positions never decrease
\* along a trace.
C16_PositionIsOffset ==
    op = "analyze_incremental" =>
        /\ \A i \in 1..Len(result) :
              result[i].success => result[i].position = OffsetReached(result[i])
        /\ \A i \in 2..Len(result) :
              (result[i - 1].success /\ result[i].success)
                  => result[i - 1].position <= result[i].position

\* C17: when the lexer recognizes no token because the text begins with an
\* un-lexable character, analyze_incremental returns exactly one record, with
\* success=false and position the length of the whole text.
C17_UnlexableStart ==
    (/\ op = "analyze_incremental"
     /\ HasUnlexable(sequence)
     /\ TokensOf(sequence) = <<>>) =>
        /\ Len(result) = 1
        /\ result[1].success = FALSE
        /\ result[1].position = Len(sequence)

\* "#1+": no token, one failure record at position 3.
C17_Witness ==
    /\ op = "analyze_incremental"
    /\ sequence = <<"#", "1", "+">>
    /\ TokensOf(sequence) = <<>>
    /\ Len(result) = 1
    /\ result[1].success = FALSE
    /\ result[1].position = 3

(***************************************************************************)
(* Claims about process_dataset, checked under SpecDataset.                *)
(***************************************************************************)
\* C18: an exception raised while processing one item (inside process_instance
\* or inside the reset call that follows it) never aborts the batch: every
\* later item is still processed, and the item whose processing raised is
\* absent from the returned list.
C18_BatchIsolation ==
    batch.pc = "returned" =>
        /\ batch.processed = {batch.dataset[i] : i \in 1..Len(batch.dataset)}
        /\ \A i \in 1..Len(result) : result[i] \notin batch.raised

(***************************************************************************)
(* The two analyzers compared, checked under SpecParse.                    *)
(***************************************************************************)
\* The trace of the restart-per-prefix analyzer for the text, on a new tracker
\* of the same process.
ReplayTrace(text) ==
    analyze_incremental_replay([mapping |-> <<>>, counter |-> 0], hashOf, text).ret

\* The trace has a success record for k tokens at index n.
HasStep(trace, n) == n <= Len(trace) /\ trace[n].success

\* C20: the single-session analyzer matches the restart-per-prefix analyzer: for
\* every text and every k from 1 to the token count, each run on a new tracker,
\* the current_state and stack recorded after k tokens are identical in the two
\* traces (the record for k tokens is the k-th of the first and the (k+1)-th of
\* the second).
C20_MatchesReplay ==
    (op = "analyze_incremental" /\ HasStep(result, 1)) =>
        LET replay == ReplayTrace(sequence)
        IN  \A k \in 1..Len(TokensOf(sequence)) :
                /\ HasStep(result, k) <=> HasStep(replay, k + 1)
                /\ HasStep(result, k) =>
                      /\ result[k].current_state = replay[k + 1].current_state
                      /\ result[k].stack = replay[k + 1].stack

(***************************************************************************)
(* Claims about independent runs, checked under SpecRuns.                  *)
(***************************************************************************)
\* The current_state, stack and stack_top of a record (none in a failure record).
StateFields(r) ==
    IF "current_state" \in DOMAIN r
    THEN <<r.current_state, r.stack, r.stack_top>>
    ELSE <<>>

\* The state fields of what a call returned: of the record of parse_partial, of
\* every record of the trace of analyze_incremental.
Reported(ret) ==
    IF op = "parse_partial" THEN <<StateFields(ret)>>
    ELSE [i \in 1..Len(ret) |-> StateFields(ret[i])]

\* C19: canonical ids are reproducible across independent runs: two new trackers
\* whose automata are the grammar's automaton up to a renumbering of the raw
\* state ids return the same current_state, stack and stack_top for the same
\* sequence of parse_partial and analyze_incremental calls.
C19_Reproducible ==
    op \in {"parse_partial", "analyze_incremental"} =>
        /\ SamePartition(other.perm)
        /\ Reported(result) = Reported(other.result)

(***************************************************************************)
(* Claims about concurrent calls, checked under SpecWorkers.               *)
(***************************************************************************)
\* The workers that have returned an id for a state of the table.
Returned == {w \in 1..MaxWorkers : workers[w].pc = "done" /\ workers[w].ret # None}

\* C21: resolve is an atomic check-and-insert: with workers sharing one tracker
\* and running _get_consistent_state_id concurrently, no fingerprint is returned
\* two different ids and no two different fingerprints are given the same id.
C21_AtomicResolve ==
    \A v, w \in Returned :
        (workers[v].fingerprint_hash = workers[w].fingerprint_hash)
            <=> (workers[v].ret = workers[w].ret)

(***************************************************************************)
(* Claims about a raw state that is not in the table, checked under Spec.  *)
(***************************************************************************)
\* C23: resolving a raw state id that is not in the automaton's table returns
\* None and leaves the registry unchanged: _state_mapping and _state_counter are
\* the same after the call as before it.
C23_UnknownStateNoEffect ==
    [][(op' = "_get_consistent_state_id" /\ result'.state_id \notin RawStates)
          => /\ result'.id = None
             /\ _state_mapping' = _state_mapping
             /\ _state_counter' = _state_counter]_vars

\* An unknown raw state has been resolved on a registry that holds ids.
C23_Witness ==
    /\ op = "_get_consistent_state_id"
    /\ result.state_id = UnknownState
    /\ result.id = None
    /\ _state_counter >= 1
    /\ DOMAIN _state_mapping # {}

(***************************************************************************)
(* Claims about the fields of one snapshot, checked under SpecSession.     *)
(***************************************************************************)
\* C24: in every snapshot returned by get_parser_state, current_state equals
\* stack_top, and whenever top_k is None or top_k >= 1 it also equals the last
\* element of the returned stack; this holds after any sequence of successful
\* feeds.
C24_CurrentIsTop ==
    op = "get_parser_state" =>
        /\ result.current_state = result.stack_top
        /\ (top_k = <<>> \/ top_k[1] >= 1) =>
              /\ result.stack # <<>>
              /\ result.stack[Len(result.stack)] = result.current_state

\* A snapshot truncated to fewer states than the stack holds, after feeds.
C24_Witness ==
    /\ op = "get_parser_state"
    /\ Len(state_stack) >= 3
    /\ top_k = <<2>>
    /\ Len(result.stack) = 2
    /\ result.stack[1] # result.stack[2]
    /\ result.current_state = result.stack_top
    /\ result.stack[2] = result.current_state

(***************************************************************************)
(* Claims about the fingerprint, checked under SpecFingerprint.            *)
(***************************************************************************)
\* The tables of s and t hold the same terms with the same action kind and
\* payload (Shift: the target; Reduce: the rule's name and length).
SameEntries(s, t) ==
    /\ DOMAIN Table(s) = DOMAIN Table(t)
    /\ \A term \in DOMAIN Table(s) :
          LET a == Table(s)[term]
              b == Table(t)[term]
          IN  /\ a.type = b.type
              /\ a.type = "Shift" => a.target = b.target
              /\ a.type = "Reduce" => a.origin = b.origin /\ a.size = b.size

\* C22: _get_state_fingerprint depends only on the set of (terminal, action)
\* entries of the state's table, not on the order in which the table is
\* iterated: the fingerprint computed for a raw state in any order of iteration
\* equals the one computed for a raw state in any other order exactly when the
\* two tables contain the same terminals with the same action kind and payload.
C22_FingerprintOfEntries ==
    (op = "_get_state_fingerprint" /\ ~result.none) =>
        /\ result.parts = FingerprintOf[result.state_id]
        /\ \A t \in RawStates : \A order \in TableOrders(Table(t)) :
              (FingerprintInOrder(t, order).parts = result.parts)
                  <=> SameEntries(result.state_id, t)

\* A table iterated in an order that is not the sorted one, whose fingerprint
\* another raw state shares.
C22_Witness ==
    /\ op = "_get_state_fingerprint"
    /\ ~result.none
    /\ Len(table_order) >= 3
    /\ Rank(table_order[1]) > Rank(table_order[2])
    /\ AppendedParts(Table(result.state_id), table_order) # result.parts
    /\ \E t \in RawStates : t # result.state_id /\ FingerprintOf[t] = result.parts

====
